---- MODULE Spec2Model ----
(***************************************************************************)
(* Options Scenario Web App (src/src/App.tsx): the numeric helpers         *)
(* (numberOr, computeRow), the totals reduce of App.computed, and the      *)
(* position list of App with its handlers (addRow, removeRow, updateRow,   *)
(* DecimalInput, uploadCSV, refreshQuote, refreshAllQuotes).               *)
(*                                                                         *)
(* A JavaScript number is a record [k, m, e]: k = "fin" is the decimal     *)
(* m * 10^e (m an integer not divisible by 10, or m = e = 0), k = "nan" is *)
(* NaN, k = "inf" is +Infinity (m = 1) or -Infinity (m = -1). Products,    *)
(* sums and the division by 100 of computeRow are exact on decimals, so    *)
(* the arithmetic is real arithmetic: binary rounding is left out.         *)
(* A JavaScript string is a sequence of one-character strings.             *)
(***************************************************************************)
EXTENDS Integers, Sequences, FiniteSets

VARIABLES rows, pct, dataFeedUrl, nextId, tasks, call, ret,
          route, autoRefresh, refreshSec, apiKey, timer, intervals, cleanup

\* route, autoRefresh, refreshSec, apiKey: the state of the Live Data page
settingVars == <<route, autoRefresh, refreshSec, apiKey>>

\* timer is timer.current (0 for null), intervals the interval timers of the
\* window that are scheduled, cleanup whether the last run of the auto-refresh
\* effect returned a cleanup function
timerVars == <<timer, intervals, cleanup>>

vars == <<rows, pct, dataFeedUrl, nextId, tasks, call, ret, settingVars, timerVars>>

appVars == <<rows, pct, dataFeedUrl, nextId, tasks, settingVars, timerVars>>

(***************************************************************************)
(* Numbers                                                                 *)
(***************************************************************************)
RECURSIVE Pow10(_)
Pow10(n) == IF n <= 0 THEN 1 ELSE 10 * Pow10(n - 1)

Abs(n) == IF n < 0 THEN -n ELSE n

Sgn(n) == IF n < 0 THEN -1 ELSE IF n > 0 THEN 1 ELSE 0

RECURSIVE NumDigits(_)
NumDigits(n) == IF n < 10 THEN 1 ELSE 1 + NumDigits(n \div 10)

RECURSIVE Fin(_, _)
Fin(m, e) ==
  IF m = 0 THEN [k |-> "fin", m |-> 0, e |-> 0]
  ELSE IF m % 10 = 0 THEN Fin(m \div 10, e + 1)
  ELSE [k |-> "fin", m |-> m, e |-> e]

NaN == [k |-> "nan", m |-> 0, e |-> 0]

Infinity(s) == [k |-> "inf", m |-> s, e |-> 0]

Zero == Fin(0, 0)

\* Number.isFinite on a number
isFinite(x) == x.k = "fin"

\* x > 0 (false for NaN)
Gt0(x) == x.k # "nan" /\ x.m > 0

Neg(x) == [x EXCEPT !.m = -x.m]

\* a + b
Add(a, b) ==
  IF a.k = "nan" \/ b.k = "nan" THEN NaN
  ELSE IF a.k = "inf" /\ b.k = "inf" THEN (IF a.m = b.m THEN a ELSE NaN)
  ELSE IF a.k = "inf" THEN a
  ELSE IF b.k = "inf" THEN b
  ELSE LET e == IF a.e < b.e THEN a.e ELSE b.e
       IN  Fin(a.m * Pow10(a.e - e) + b.m * Pow10(b.e - e), e)

\* a - b
Sub(a, b) == Add(a, Neg(b))

\* a * b
Mul(a, b) ==
  IF a.k = "nan" \/ b.k = "nan" THEN NaN
  ELSE IF a.k = "inf" \/ b.k = "inf"
       THEN (IF a.m = 0 \/ b.m = 0 THEN NaN ELSE Infinity(Sgn(a.m) * Sgn(b.m)))
  ELSE Fin(a.m * b.m, a.e + b.e)

\* a / 100
DivHundred(a) == IF a.k = "fin" THEN Fin(a.m, a.e - 2) ELSE a

\* The double nearest to m * 10^e, as far as its range goes: a magnitude
\* above Number.MAX_VALUE (about 1.797e308) is an infinity, one below the
\* smallest subnormal (about 4.9e-324) is 0.
ToDouble(m, e) ==
  LET x == Fin(m, e)
      d == NumDigits(Abs(x.m))
      order == x.e + d - 1
      lead2 == IF d = 1 THEN Abs(x.m) * 10 ELSE Abs(x.m) \div Pow10(d - 2)
  IN  IF x.m = 0 THEN x
      ELSE IF order > 308 \/ (order = 308 /\ lead2 >= 18) THEN Infinity(Sgn(x.m))
      ELSE IF order < -324 THEN Zero
      ELSE x

(***************************************************************************)
(* Strings and parseFloat                                                  *)
(***************************************************************************)
WhiteSpace == {" "}

DigitChars == {"0", "1", "2", "3", "4", "5", "6", "7", "8", "9"}

DigitVal(c) ==
  CASE c = "0" -> 0 [] c = "1" -> 1 [] c = "2" -> 2 [] c = "3" -> 3
    [] c = "4" -> 4 [] c = "5" -> 5 [] c = "6" -> 6 [] c = "7" -> 7
    [] c = "8" -> 8 [] c = "9" -> 9

DigitChar(d) ==
  CASE d = 0 -> "0" [] d = 1 -> "1" [] d = 2 -> "2" [] d = 3 -> "3"
    [] d = 4 -> "4" [] d = 5 -> "5" [] d = 6 -> "6" [] d = 7 -> "7"
    [] d = 8 -> "8" [] d = 9 -> "9"

InfinityText == <<"I", "n", "f", "i", "n", "i", "t", "y">>

RECURSIVE SkipWhite(_, _)
SkipWhite(s, i) ==
  IF i <= Len(s) /\ s[i] \in WhiteSpace THEN SkipWhite(s, i + 1) ELSE i

RECURSIVE SpanDigits(_, _)
SpanDigits(s, i) ==
  IF i <= Len(s) /\ s[i] \in DigitChars THEN 1 + SpanDigits(s, i + 1) ELSE 0

RECURSIVE DigitsValue(_, _, _)
DigitsValue(s, i, n) ==
  IF n = 0 THEN 0 ELSE DigitsValue(s, i, n - 1) * 10 + DigitVal(s[i + n - 1])

\* parseFloat(s): leading white space is skipped, then the longest prefix that
\* is a StrDecimalLiteral is read: an optional sign, then Infinity, or digits
\* with at most one decimal point (a digit on one side of it at least) and an
\* optional exponent part (e or E, an optional sign, digits). NaN without one.
parseFloat(s) ==
  LET i0 == SkipWhite(s, 1)
      signed == i0 <= Len(s) /\ s[i0] \in {"+", "-"}
      sg == IF signed /\ s[i0] = "-" THEN -1 ELSE 1
      i1 == IF signed THEN i0 + 1 ELSE i0
      isInf == i1 + 7 <= Len(s) /\ SubSeq(s, i1, i1 + 7) = InfinityText
      n1 == SpanDigits(s, i1)
      dot == i1 + n1 <= Len(s) /\ s[i1 + n1] = "."
      n2 == IF dot THEN SpanDigits(s, i1 + n1 + 1) ELSE 0
      p == i1 + n1 + (IF dot THEN 1 + n2 ELSE 0)
      hasE == p <= Len(s) /\ s[p] \in {"e", "E"}
      eSigned == hasE /\ p + 1 <= Len(s) /\ s[p + 1] \in {"+", "-"}
      q == IF eSigned THEN p + 2 ELSE p + 1
      n3 == IF hasE THEN SpanDigits(s, q) ELSE 0
      ex == IF n3 = 0 THEN 0
            ELSE (IF eSigned /\ s[p + 1] = "-" THEN -1 ELSE 1) * DigitsValue(s, q, n3)
      mant == DigitsValue(s, i1, n1) * Pow10(n2) + DigitsValue(s, i1 + n1 + 1, n2)
  IN  IF isInf THEN Infinity(sg)
      ELSE IF n1 + n2 = 0 THEN NaN
      ELSE ToDouble(sg * mant, ex - n2)

(***************************************************************************)
(* JavaScript values of unknown type: a string, a number, or anything else *)
(***************************************************************************)
Str(s) == [t |-> "string", s |-> s, n |-> NaN]

Num(n) == [t |-> "number", s |-> <<>>, n |-> n]

Undefined == [t |-> "undefined", s |-> <<>>, n |-> NaN]

numberOr_NotNaN(v, fallback) ==
  LET n == IF v.t = "string" THEN Num(parseFloat(v.s)) ELSE v
  IN  IF n.t = "number" /\ n.n.k # "nan" THEN n.n ELSE fallback

\* numberOr(v, fallback)
numberOr(v, fallback) ==
  LET n == IF v.t = "string" THEN Num(parseFloat(v.s)) ELSE v
  IN  IF n.t = "number" /\ isFinite(n.n) THEN n.n ELSE fallback

(***************************************************************************)
(* computeRow                                                              *)
(***************************************************************************)
\* const m = 100
m == Fin(100, 0)

plusPrice_GE0(currentPrice, p) ==
  IF currentPrice.k # "nan" /\ currentPrice.m >= 0
  THEN Mul(currentPrice, Add(Fin(1, 0), p)) ELSE NaN

plusPrice(currentPrice, p) ==
  IF Gt0(currentPrice) THEN Mul(currentPrice, Add(Fin(1, 0), p)) ELSE NaN

minusPrice(currentPrice, p) ==
  IF Gt0(currentPrice) THEN Mul(currentPrice, Sub(Fin(1, 0), p)) ELSE NaN

curValue_NoContractsTest(currentPrice, contracts) ==
  IF Gt0(currentPrice) THEN Mul(Mul(currentPrice, contracts), m) ELSE NaN

curValue(currentPrice, contracts) ==
  IF Gt0(currentPrice) /\ Gt0(contracts) THEN Mul(Mul(currentPrice, contracts), m) ELSE NaN

\* plusValue and minusValue, of plusPrice and of minusPrice
scenarioValue(price, contracts) ==
  IF isFinite(price) /\ Gt0(contracts) THEN Mul(Mul(price, contracts), m) ELSE NaN

unrealNow_PositiveOnly(entryPrice, currentPrice, contracts) ==
  IF Gt0(currentPrice)
  THEN Mul(Mul(Sub(currentPrice, entryPrice), contracts), m) ELSE NaN

unrealNow(entryPrice, currentPrice, contracts) ==
  IF isFinite(currentPrice)
  THEN Mul(Mul(Sub(currentPrice, entryPrice), contracts), m) ELSE NaN

realized_ContractsTest(price, entryPrice, contracts) ==
  IF isFinite(price) /\ Gt0(contracts)
  THEN Mul(Mul(Sub(price, entryPrice), contracts), m) ELSE NaN

\* realizedPlus and realizedMinus, of plusPrice and of minusPrice
realized(price, entryPrice, contracts) ==
  IF isFinite(price) THEN Mul(Mul(Sub(price, entryPrice), contracts), m) ELSE NaN

breakevenStock_AnyType(type, strike, entryPrice) ==
  IF type = "C" THEN Add(strike, entryPrice) ELSE Sub(strike, entryPrice)

breakevenStock(type, strike, entryPrice) ==
  IF type = "C" THEN Add(strike, entryPrice) ELSE NaN

computeRow(entryPrice, currentPrice, contracts, strike, type, pc) ==
  LET p == DivHundred(pc)
      plus == plusPrice(currentPrice, p)
      minus == minusPrice(currentPrice, p)
  IN  [ plusPrice |-> plus,
        minusPrice |-> minus,
        curValue |-> curValue(currentPrice, contracts),
        plusValue |-> scenarioValue(plus, contracts),
        minusValue |-> scenarioValue(minus, contracts),
        unrealNow |-> unrealNow(entryPrice, currentPrice, contracts),
        realizedPlus |-> realized(plus, entryPrice, contracts),
        realizedMinus |-> realized(minus, entryPrice, contracts),
        breakevenStock |-> breakevenStock(type, strike, entryPrice) ]

(***************************************************************************)
(* Number to string: String(n) and n.toFixed(f)                            *)
(***************************************************************************)
RECURSIVE IntDigits(_)
IntDigits(n) ==
  IF n < 10 THEN <<DigitChar(n)>> ELSE Append(IntDigits(n \div 10), DigitChar(n % 10))

RECURSIVE Zeros(_)
Zeros(n) == IF n <= 0 THEN <<>> ELSE <<"0">> \o Zeros(n - 1)

\* String(x): Number::toString, radix 10
NumberToString(x) ==
  IF x.k = "nan" THEN <<"N", "a", "N">>
  ELSE IF x.k = "inf" THEN (IF x.m < 0 THEN <<"-">> ELSE <<>>) \o InfinityText
  ELSE IF x.m = 0 THEN <<"0">>
  ELSE LET D == IntDigits(Abs(x.m))
           k == Len(D)
           n == k + x.e
           sign == IF x.m < 0 THEN <<"-">> ELSE <<>>
       IN  sign \o
           ( IF k <= n /\ n <= 21 THEN D \o Zeros(n - k)
             ELSE IF 0 < n /\ n <= 21 THEN SubSeq(D, 1, n) \o <<".">> \o SubSeq(D, n + 1, k)
             ELSE IF -6 < n /\ n <= 0 THEN <<"0", ".">> \o Zeros(-n) \o D
             ELSE <<D[1]>> \o (IF k > 1 THEN <<".">> \o SubSeq(D, 2, k) ELSE <<>>)
                  \o <<"e">> \o (IF n - 1 < 0 THEN <<"-">> ELSE <<"+">>)
                  \o IntDigits(Abs(n - 1)) )

\* x.toFixed(f) for a finite x: the nearest decimal with f fraction digits,
\* the larger one of two equally near; NumberToString(x) from 1e21 on
toFixed(x, f) ==
  LET a == Abs(x.m)
      drop == -x.e - f
      n == IF drop <= 0 THEN a * Pow10(-drop)
           ELSE (2 * a + Pow10(drop)) \div (2 * Pow10(drop))
      D == IntDigits(n)
      P == Zeros(f + 1 - Len(D)) \o D
      sign == IF x.m < 0 THEN <<"-">> ELSE <<>>
  IN  IF x.m # 0 /\ x.e + NumDigits(a) - 1 >= 21 THEN NumberToString(x)
      ELSE sign \o SubSeq(P, 1, Len(P) - f)
                \o (IF f > 0 THEN <<".">> \o SubSeq(P, Len(P) - f + 1, Len(P)) ELSE <<>>)

(***************************************************************************)
(* DecimalInput                                                            *)
(***************************************************************************)
\* onChange keeps v when v === "" || v === "." || /^\d*\.?\d*$/.test(v)
DecimalAccepts(v) ==
  LET n1 == SpanDigits(v, 1)
      dot == n1 + 1 <= Len(v) /\ v[n1 + 1] = "."
      n2 == IF dot THEN SpanDigits(v, n1 + 2) ELSE 0
  IN  n1 + (IF dot THEN 1 + n2 ELSE 0) = Len(v)

\* onBlur: the string handed to onChange
DecimalBlur(text, decimals) ==
  LET n == parseFloat(text)
  IN  IF isFinite(n) THEN toFixed(n, decimals) ELSE <<>>

(***************************************************************************)
(* Rows                                                                    *)
(***************************************************************************)
emptyRow(id) ==
  [ id |-> id,
    ticker |-> "CIFR",
    contract |-> "CIFR Dec 19 2025 15C",
    expiration |-> "2025-12-19",
    strike |-> <<"1", "5">>,
    type |-> "C",
    contracts |-> <<"1">>,
    entryPrice |-> <<"1", ".", "0", "0">>,
    currentPrice |-> <<"0", ".", "9", "0">>,
    notes |-> "" ]

\* { ...x, ...patch }
Merge(x, patch) ==
  [f \in DOMAIN x |-> IF f \in DOMAIN patch THEN patch[f] ELSE x[f]]

\* setRows updaters
addRow(r, id) == Append(r, emptyRow(id))

removeRow(r, id) == SelectSeq(r, LAMBDA x : x.id # id)

updateRow(r, id, patch) ==
  [i \in 1..Len(r) |-> IF r[i].id = id THEN Merge(r[i], patch) ELSE r[i]]

(***************************************************************************)
(* App.computed                                                            *)
(***************************************************************************)
rowCalcs(row, pc) ==
  computeRow(numberOr(Str(row.entryPrice), Zero),
             numberOr(Str(row.currentPrice), Zero),
             numberOr(Str(row.contracts), Zero),
             numberOr(Str(row.strike), Zero),
             IF row.type = "" THEN "C" ELSE row.type,
             pc)

\* rows.map(...)
RECURSIVE withCalcs(_, _)
withCalcs(r, pc) ==
  IF r = <<>> THEN <<>> ELSE <<rowCalcs(Head(r), pc)>> \o withCalcs(Tail(r), pc)

TotalFields ==
  {"curValue", "unrealNow", "plusValue", "minusValue", "realizedPlus", "realizedMinus"}

reduceStep_NoNumberOr(acc, r) ==
  [ curValue |-> Add(acc.curValue, r.curValue),
    unrealNow |-> Add(acc.unrealNow, r.unrealNow),
    plusValue |-> Add(acc.plusValue, r.plusValue),
    minusValue |-> Add(acc.minusValue, r.minusValue),
    realizedPlus |-> Add(acc.realizedPlus, r.realizedPlus),
    realizedMinus |-> Add(acc.realizedMinus, r.realizedMinus) ]

reduceStep_Assign(acc, r) ==
  [ curValue |-> numberOr(Num(r.curValue), Zero),
    unrealNow |-> numberOr(Num(r.unrealNow), Zero),
    plusValue |-> numberOr(Num(r.plusValue), Zero),
    minusValue |-> numberOr(Num(r.minusValue), Zero),
    realizedPlus |-> numberOr(Num(r.realizedPlus), Zero),
    realizedMinus |-> numberOr(Num(r.realizedMinus), Zero) ]

\* the reducer: acc.f += numberOr(r.f, 0) for the six fields
reduceStep(acc, r) ==
  [ curValue |-> Add(acc.curValue, numberOr(Num(r.curValue), Zero)),
    unrealNow |-> Add(acc.unrealNow, numberOr(Num(r.unrealNow), Zero)),
    plusValue |-> Add(acc.plusValue, numberOr(Num(r.plusValue), Zero)),
    minusValue |-> Add(acc.minusValue, numberOr(Num(r.minusValue), Zero)),
    realizedPlus |-> Add(acc.realizedPlus, numberOr(Num(r.realizedPlus), Zero)),
    realizedMinus |-> Add(acc.realizedMinus, numberOr(Num(r.realizedMinus), Zero)) ]

RECURSIVE reduce(_, _, _)
reduce(calcs, i, acc) ==
  IF i > Len(calcs) THEN acc ELSE reduce(calcs, i + 1, reduceStep(acc, calcs[i]))

totalsOf(calcs) ==
  reduce(calcs, 1, [ curValue |-> Zero, unrealNow |-> Zero, plusValue |-> Zero,
                     minusValue |-> Zero, realizedPlus |-> Zero, realizedMinus |-> Zero ])

\* useMemo over [rows, pct]
computed ==
  LET calcs == withCalcs(rows, pct)
  IN  [rows |-> calcs, totals |-> totalsOf(calcs)]

(***************************************************************************)
(* The application: state after construction and the handlers              *)
(***************************************************************************)
MaxRows == 2

MaxIds == 3

MaxTasks == 1

NoCall == [op |-> "none"]

NoRet == [tag |-> "none"]

\* crypto.randomUUID(): a token never handed out before; the n-th one is n
randomUUID(n) == n

\* the text inputs of a row that the model edits (of ticker, contract,
\* expiration, notes): contract decides which rows refreshAllQuotes fetches for
TextFields == {"contract"}

TextInputs == {""}

\* the DecimalInputs of a row that the model edits (of strike, contracts,
\* entryPrice, currentPrice); strike and entryPrice vary through import and
\* stored lists
DecimalFields == {"contracts", "currentPrice"}

\* the decimals prop of each DecimalInput of a table row
decimalsOf(f) ==
  CASE f = "strike" -> 2 [] f = "contracts" -> 0
    [] f = "entryPrice" -> 4 [] f = "currentPrice" -> 4

\* what the user types into a DecimalInput
TypedTexts == {<<"2">>}

\* what the user types into the Scenario % input
PctTexts == {<<>>, <<"5", "0">>}

\* the numbers a feed answers as json.last (1e999 in JSON is Infinity)
QuoteValues == {Fin(172, -2), Infinity(1)}

\* the outcome of fetchOptionQuote with an endpoint: a number, or null
QuoteOutcomes == {[null |-> FALSE, px |-> q] : q \in QuoteValues} \cup {[null |-> TRUE, px |-> NaN]}

FeedUrls == {"", "https://feed.example/optionquote"}

\* localStorage optionsRows_v4 at start: absent, or a list saved earlier
StoredLists ==
  { <<>>,
    << [emptyRow(randomUUID(1)) EXCEPT !.type = "P", !.currentPrice = <<"0">>],
       [emptyRow(randomUUID(2)) EXCEPT !.contract = "", !.contracts = <<"2">>] >> }

(***************************************************************************)
(* The auto-refresh effect. An interval timer of the window is a record    *)
(* [id, delay]; the window never hands out an identifier twice, and the    *)
(* only one the program remembers is timer.current, so an identifier that  *)
(* is neither scheduled nor timer.current stands for a new one.            *)
(***************************************************************************)
MaxTimers == 3

TimerIds == 1..MaxTimers

\* Math.max(a, b)
MathMax(a, b) ==
  IF a.k = "nan" \/ b.k = "nan" THEN NaN
  ELSE IF a.k = "inf" THEN (IF a.m > 0 THEN a ELSE b)
  ELSE IF b.k = "inf" THEN (IF b.m > 0 THEN b ELSE a)
  ELSE IF Sub(a, b).m < 0 THEN b ELSE a

\* Math.max(5, refreshSec) * 1000
delayOf(sec) == Mul(MathMax(Fin(5, 0), sec), Fin(1000, 0))

\* window.clearInterval(id)
clearInterval(ints, id) == {i \in ints : i.id # id}

\* the identifiers window.setInterval can return
newTimerIds(ints, cur) == {n \in TimerIds : n # cur /\ \A i \in ints : i.id # n}

\* window.setInterval(handler, delay): the identifier and the timers after it
setInterval(ints, cur, delay) ==
  LET id == CHOOSE n \in newTimerIds(ints, cur) : \A k \in newTimerIds(ints, cur) : n <= k
  IN  [id |-> id, ints |-> ints \cup {[id |-> id, delay |-> delay]}]

timerEffect_SchedulesOnly ==
  IF autoRefresh' /\ route' = "live"
  THEN /\ newTimerIds(intervals, timer) # {}
       /\ LET set == setInterval(intervals, timer, delayOf(refreshSec'))
          IN  /\ timer' = set.id
              /\ intervals' = set.ints
              /\ cleanup' = TRUE
  ELSE /\ timer' = timer
       /\ intervals' = intervals
       /\ cleanup' = FALSE

\* a commit in which a dependency of the auto-refresh effect has changed: the
\* cleanup the last run returned, then the effect with the new state
timerEffect ==
  LET cleaned == IF cleanup /\ timer # 0 THEN clearInterval(intervals, timer) ELSE intervals
      cleared == IF timer # 0 THEN clearInterval(cleaned, timer) ELSE cleaned
  IN  IF autoRefresh' /\ route' = "live"
      THEN /\ newTimerIds(cleared, timer) # {}
           /\ LET set == setInterval(cleared, timer, delayOf(refreshSec'))
              IN  /\ timer' = set.id
                  /\ intervals' = set.ints
                  /\ cleanup' = TRUE
      ELSE /\ timer' = timer
           /\ intervals' = cleared
           /\ cleanup' = FALSE

\* the Live Data page as it starts, on either route, after the first run of
\* the effect
InitLive ==
  /\ autoRefresh = FALSE
  /\ refreshSec = Fin(15, 0)
  /\ apiKey = ""
  /\ timer = 0
  /\ intervals = {}
  /\ cleanup = FALSE

Init ==
  /\ route = "portfolio"
  /\ InitLive
  /\ \/ rows = <<emptyRow(randomUUID(1))>> /\ nextId = 2
     \/ \E l \in StoredLists : rows = l /\ nextId = Len(l) + 1
  /\ pct = Fin(15, 0)
  /\ dataFeedUrl = ""
  /\ tasks = <<>>
  /\ call = NoCall
  /\ ret = NoRet

RowIds == {rows[i].id : i \in 1..Len(rows)}

RowOf(id) == rows[CHOOSE i \in 1..Len(rows) : rows[i].id = id]

\* Add Row button
AddRow ==
  /\ Len(rows) < MaxRows
  /\ nextId <= MaxIds
  /\ rows' = addRow(rows, randomUUID(nextId))
  /\ nextId' = nextId + 1
  /\ UNCHANGED <<pct, dataFeedUrl, tasks, call, ret, settingVars>>
  /\ timerEffect

\* Remove link of a row
RemoveRow ==
  /\ \E id \in RowIds : rows' = removeRow(rows, id)
  /\ UNCHANGED <<pct, dataFeedUrl, nextId, tasks, call, ret, settingVars>>
  /\ timerEffect

\* a text input of a row (ticker, contract, expiration, notes)
EditText ==
  /\ \E id \in RowIds, f \in TextFields, v \in TextInputs :
       rows' = updateRow(rows, id, [g \in {f} |-> v])
  /\ UNCHANGED <<pct, dataFeedUrl, nextId, tasks, call, ret, settingVars>>
  /\ timerEffect

\* a DecimalInput of a row: typing (or not), then blur
EditDecimal ==
  /\ \E id \in RowIds, f \in DecimalFields, typed \in TypedTexts :
       LET text == IF DecimalAccepts(typed) THEN typed ELSE RowOf(id)[f]
       IN  rows' = updateRow(rows, id, [g \in {f} |-> DecimalBlur(text, decimalsOf(f))])
  /\ UNCHANGED <<pct, dataFeedUrl, nextId, tasks, call, ret, settingVars>>
  /\ timerEffect

\* the Scenario % input
SetPct ==
  /\ \E v \in PctTexts : pct' = numberOr(Str(v), Fin(15, 0))
  /\ UNCHANGED <<rows, dataFeedUrl, nextId, tasks, call, ret, settingVars, timerVars>>

\* the Endpoint URL input
SetDataFeedUrl ==
  /\ \E u \in FeedUrls : dataFeedUrl' = u
  /\ UNCHANGED <<rows, pct, nextId, tasks, call, ret, settingVars>>
  /\ IF dataFeedUrl' # dataFeedUrl THEN timerEffect ELSE UNCHANGED timerVars

(***************************************************************************)
(* CSV import. A file is its non-empty lines, the header first; a line is  *)
(* its columns after the split on commas and the removal of the quotes.    *)
(***************************************************************************)
CsvHeader == <<"Ticker">>

CsvPutLine ==
  << "ZBRA", "ZBRA Jan 16 2026 10P", "2026-01-16", <<"1", "0">>, "p",
     <<"2">>, <<"a", "b", "c">>, <<"-", "1">>, "hedge" >>

CsvShortLine == <<"CIFR">>

CsvFiles ==
  { <<CsvHeader>>, <<CsvHeader, CsvPutLine>>, <<CsvHeader, CsvShortLine, CsvPutLine>> }

\* cols[i] || "" for a column kept as text
colText(cols, i) == IF i <= Len(cols) /\ cols[i] # "" THEN cols[i] ELSE ""

\* cols[i] || "" for a column that numberOr reads later
colChars(cols, i) == IF i <= Len(cols) /\ cols[i] # <<>> THEN cols[i] ELSE <<>>

toUpperCase(t) == CASE t = "p" -> "P" [] t = "c" -> "C" [] OTHER -> t

parsedRow_SharedId(cols, id) ==
  [ id |-> randomUUID(1),
    ticker |-> colText(cols, 1),
    contract |-> colText(cols, 2),
    expiration |-> colText(cols, 3),
    strike |-> colChars(cols, 4),
    type |-> IF toUpperCase(IF colText(cols, 5) = "" THEN "C" ELSE colText(cols, 5)) = "P"
             THEN "P" ELSE "C",
    contracts |-> colChars(cols, 6),
    entryPrice |-> colChars(cols, 7),
    currentPrice |-> colChars(cols, 8),
    notes |-> colText(cols, 9) ]

parsedRow(cols, id) ==
  [ id |-> id,
    ticker |-> colText(cols, 1),
    contract |-> colText(cols, 2),
    expiration |-> colText(cols, 3),
    strike |-> colChars(cols, 4),
    type |-> IF toUpperCase(IF colText(cols, 5) = "" THEN "C" ELSE colText(cols, 5)) = "P"
             THEN "P" ELSE "C",
    contracts |-> colChars(cols, 6),
    entryPrice |-> colChars(cols, 7),
    currentPrice |-> colChars(cols, 8),
    notes |-> colText(cols, 9) ]

\* reader.onload of uploadCSV
UploadCSV ==
  /\ \E lines \in CsvFiles :
       IF Len(lines) < 2
       THEN UNCHANGED <<rows, nextId, settingVars, timerVars>>
       ELSE LET rest == Tail(lines)
            IN  /\ nextId + Len(rest) - 1 <= MaxIds
                /\ rows' = [i \in 1..Len(rest) |-> parsedRow(rest[i], randomUUID(nextId + i - 1))]
                /\ nextId' = nextId + Len(rest)
                /\ UNCHANGED settingVars
                /\ timerEffect
  /\ UNCHANGED <<pct, dataFeedUrl, tasks, call, ret>>

(***************************************************************************)
(* Quotes. A task is a call of refreshQuote or refreshAllQuotes waiting in *)
(* fetchOptionQuote: items are the identifiers it has still to fetch for,  *)
(* the first one in flight.                                                *)
(***************************************************************************)
\* what fetchOptionQuote can return for the endpoint of the rendering
fetchOptionQuote(url) ==
  IF url = "" THEN {[null |-> TRUE, px |-> NaN]} ELSE QuoteOutcomes

applyQuote_Upsert(r, id, o) ==
  IF o.null THEN r
  ELSE IF \E i \in 1..Len(r) : r[i].id = id
       THEN updateRow(r, id, [currentPrice |-> NumberToString(o.px)])
       ELSE Append(r, [emptyRow(id) EXCEPT !.currentPrice = NumberToString(o.px)])

\* if (px != null) updateRow(id, { currentPrice: String(px) })
applyQuote(r, id, o) ==
  IF o.null THEN r ELSE updateRow(r, id, [currentPrice |-> NumberToString(o.px)])

\* the rows refreshAllQuotes fetches for: for (const r of rows) if (r.contract)
quotedIds(r) ==
  LET kept == SelectSeq(r, LAMBDA x : x.contract # "")
  IN  [i \in 1..Len(kept) |-> kept[i].id]

\* starting a call: without an endpoint every fetch is null at once
startTask(items) ==
  IF dataFeedUrl = "" \/ items = <<>>
  THEN UNCHANGED tasks
  ELSE /\ Len(tasks) < MaxTasks
       /\ tasks' = Append(tasks, [items |-> items, feed |-> dataFeedUrl])

\* Sync button of a row
RefreshQuote ==
  /\ \E id \in RowIds : startTask(<<id>>)
  /\ UNCHANGED <<rows, pct, dataFeedUrl, nextId, call, ret, settingVars, timerVars>>

\* Refresh All button, or the interval timer
RefreshAllQuotes ==
  /\ startTask(quotedIds(rows))
  /\ UNCHANGED <<rows, pct, dataFeedUrl, nextId, call, ret, settingVars, timerVars>>

\* task t after its fetch in flight has settled: the next row, or the end
settled(ts, t) ==
  IF Len(ts[t].items) = 1
  THEN SubSeq(ts, 1, t - 1) \o SubSeq(ts, t + 1, Len(ts))
  ELSE [ts EXCEPT ![t].items = Tail(ts[t].items)]

\* the fetch in flight of a task settles; ret keeps the px of the last one
\* and the identifier it was fetched for
QuoteArrives ==
  /\ \E t \in 1..Len(tasks) :
       \E o \in fetchOptionQuote(tasks[t].feed) :
         /\ rows' = applyQuote(rows, Head(tasks[t].items), o)
         /\ tasks' = settled(tasks, t)
         /\ ret' = [tag |-> "px", id |-> Head(tasks[t].items), null |-> o.null, px |-> o.px]
         /\ UNCHANGED settingVars
         /\ IF o.null THEN UNCHANGED timerVars ELSE timerEffect
  /\ UNCHANGED <<pct, dataFeedUrl, nextId, call>>

Next ==
  \/ AddRow
  \/ RemoveRow
  \/ EditText
  \/ EditDecimal
  \/ SetPct
  \/ SetDataFeedUrl
  \/ UploadCSV
  \/ RefreshQuote
  \/ RefreshAllQuotes
  \/ QuoteArrives

Spec == Init /\ [][Next]_vars

(***************************************************************************)
(* The position list and its totals                                        *)
(***************************************************************************)
\* the sum over the positions of field f times 10^5, NaN counted as 0
RECURSIVE ScaledSum(_, _)
ScaledSum(calcs, f) ==
  IF calcs = <<>> THEN 0
  ELSE (IF Head(calcs)[f].k = "fin" THEN Head(calcs)[f].m * Pow10(Head(calcs)[f].e + 5) ELSE 0)
       + ScaledSum(Tail(calcs), f)

\* C6: in every reachable state each of the six totals is a finite number, the
\* sum over the positions of the derived value with every NaN counted as 0; the
\* empty list has all totals 0.
C6_Totals ==
  LET c == computed
  IN  /\ \A f \in TotalFields :
           /\ isFinite(c.totals[f])
           /\ c.totals[f].e + 5 >= 0
           /\ c.totals[f].m * Pow10(c.totals[f].e + 5) = ScaledSum(c.rows, f)
      /\ rows = <<>> => \A f \in TotalFields : c.totals[f] = Zero
      /\ (\A i \in 1..Len(c.rows) : \A f \in TotalFields : c.rows[i][f] = NaN)
           => \A f \in TotalFields : c.totals[f] = Zero

\* after a change of the scenario percentage: a position without a current
\* value beside one with a current value, and a total that is not 0
C6_Witness ==
  /\ pct = Fin(50, 0)
  /\ Len(rows) = 2
  /\ LET c == computed
     IN  /\ c.rows[1].curValue = NaN
         /\ isFinite(c.rows[2].curValue)
         /\ c.totals.curValue = c.rows[2].curValue
         /\ c.totals.plusValue # Zero

Permutations(n) ==
  {q \in [1..n -> 1..n] : \A i, j \in 1..n : i # j => q[i] # q[j]}

\* C8: the totals of every permutation of the list, under the same scenario
\* percentage, are the totals of the list.
C8_OrderIndependent ==
  LET totals == computed.totals
  IN  \A q \in Permutations(Len(rows)) :
        totalsOf(withCalcs([i \in 1..Len(rows) |-> rows[q[i]]], pct)) = totals

\* two positions with different figures, one of them without a current value
C8_Witness ==
  /\ Len(rows) = 2
  /\ LET c == computed
     IN  /\ c.rows[1].curValue # NaN
         /\ c.rows[2].curValue = NaN
         /\ c.rows[1].unrealNow # c.rows[2].unrealNow
         /\ c.totals.unrealNow # Zero

\* C9: when the fetch of a task settles, a px that is null leaves the list as
\* it is; a number leaves the length, the order and the identifiers of the
\* list, every row with another identifier and every field but currentPrice
\* as they are, and sets currentPrice where the identifier is found.
C9_QuoteSetsCurrentPriceOnly ==
  [][ \A t \in 1..Len(tasks) :
        tasks' = settled(tasks, t) =>
          /\ ret'.tag = "px"
          /\ ret'.id = Head(tasks[t].items)
          /\ ret'.null => rows' = rows
          /\ Len(rows') = Len(rows)
          /\ \A i \in 1..Len(rows) :
               /\ DOMAIN rows'[i] = DOMAIN rows[i]
               /\ rows[i].id # ret'.id => rows'[i] = rows[i]
               /\ \A f \in DOMAIN rows[i] \ {"currentPrice"} : rows'[i][f] = rows[i][f]
               /\ (rows[i].id = ret'.id /\ ~ret'.null) =>
                    rows'[i].currentPrice = NumberToString(ret'.px)
    ]_vars

\* a number has arrived for an identifier that is not in the list, which has
\* rows and no row with that number
C9_Witness ==
  /\ ret.tag = "px"
  /\ ~ret.null
  /\ ret.id \notin RowIds
  /\ Len(rows) = 2
  /\ \A i \in 1..Len(rows) : rows[i].currentPrice # NumberToString(ret.px)

IdsOf(r) == [i \in 1..Len(r) |-> r[i].id]

Distinct(q) == \A i, j \in 1..Len(q) : i # j => q[i] # q[j]

\* the sequence q without its element at position n
Without(q, n) == SubSeq(q, 1, n - 1) \o SubSeq(q, n + 1, Len(q))

\* C10: the identifiers of the list are pairwise distinct before and after every
\* step, and a step keeps the identifier of every row in place (an edit, a
\* quote), or takes one row out (a removal), or adds at the end one row with an
\* identifier that is not in the list (an addition), or leaves only rows with
\* identifiers that were not in the list (an import).
C10_IdsUniqueAndStable ==
  [][ /\ Distinct(IdsOf(rows))
      /\ Distinct(IdsOf(rows'))
      /\ \/ IdsOf(rows') = IdsOf(rows)
         \/ \E n \in 1..Len(rows) : IdsOf(rows') = Without(IdsOf(rows), n)
         \/ /\ Len(rows') = Len(rows) + 1
            /\ SubSeq(IdsOf(rows'), 1, Len(rows)) = IdsOf(rows)
            /\ rows'[Len(rows')].id \notin RowIds
         \/ \A i \in 1..Len(rows') : rows'[i].id \notin RowIds
    ]_vars

\* the first row has been edited and quoted and is still the first token; the
\* second row is the third token, added after a removal
C10_Witness ==
  /\ Len(rows) = 2
  /\ rows[1].id = randomUUID(1)
  /\ rows[1].contracts = <<"2">>
  /\ rows[1].currentPrice = NumberToString(Fin(172, -2))
  /\ rows[2].id = randomUUID(3)

(***************************************************************************)
(* computeRow as a pure function: one call on inputs of a bounded set      *)
(***************************************************************************)
IdleApp ==
  /\ route = "portfolio"
  /\ InitLive
  /\ rows = <<>>
  /\ pct = Fin(15, 0)
  /\ dataFeedUrl = ""
  /\ nextId = 1
  /\ tasks = <<>>

\* prices: at most two decimals, and the values that are not finite
PriceInputs ==
  {Fin(-1, 0), Zero, Fin(9, -1), Fin(1, 0), Fin(172, -2), NaN, Infinity(1), Infinity(-1)}

\* contract counts: at most one decimal
CountInputs == {Fin(-1, 0), Zero, Fin(1, 0), Fin(15, -1), Fin(2, 0), NaN, Infinity(1)}

StrikeInputs == {Fin(15, 0), Fin(-25, -1), NaN}

\* scenario percentages: integers
PctInputs == {Fin(-100, 0), Zero, Fin(15, 0), Fin(100, 0), Fin(150, 0)}

RowCalls ==
  [ op : {"computeRow"}, entryPrice : PriceInputs, currentPrice : PriceInputs,
    contracts : CountInputs, strike : StrikeInputs, type : {"C", "P"}, pct : PctInputs ]

InitRow == IdleApp /\ call \in RowCalls /\ ret = NoRet

ComputeRowCall ==
  /\ call.op = "computeRow"
  /\ ret = NoRet
  /\ ret' = [ tag |-> "row",
              v |-> computeRow(call.entryPrice, call.currentPrice, call.contracts,
                               call.strike, call.type, call.pct) ]
  /\ UNCHANGED <<appVars, call>>

NextRow == ComputeRowCall

SpecRow == InitRow /\ [][NextRow]_vars

\* x is the finite number n / 10^k
IsScaled(x, k, n) == isFinite(x) /\ x.e + k >= 0 /\ x.m * Pow10(x.e + k) = n

\* the integer x * 10^k of a finite x with at most k decimals
Scaled(x, k) == x.m * Pow10(x.e + k)

\* x <= 0 (false for NaN)
Le0(x) == x.k # "nan" /\ x.m <= 0

Returned == ret.tag = "row"

FiniteCall == isFinite(call.entryPrice) /\ isFinite(call.currentPrice)
              /\ isFinite(call.contracts) /\ isFinite(call.pct)

InputsOf(f) ==
  CASE f = "entryPrice" -> PriceInputs [] f = "currentPrice" -> PriceInputs
    [] f = "contracts" -> CountInputs [] f = "strike" -> StrikeInputs
    [] f = "type" -> {"C", "P"} [] f = "pct" -> PctInputs

\* the calls that differ from the call made in one argument, one of fields
\* (a result that no single argument of fields changes, at any call, is a
\* result that no change of them together changes)
OtherCalls(fields) ==
  UNION {{[call EXCEPT ![f] = x] : x \in InputsOf(f)} : f \in fields}

ResultOf(c) ==
  computeRow(c.entryPrice, c.currentPrice, c.contracts, c.strike, c.type, c.pct)

\* C1: plusPrice = currentPrice * (1 + pct/100) and minusPrice = currentPrice *
\* (1 - pct/100) when currentPrice > 0, both NaN (not 0) when currentPrice <= 0;
\* neither depends on entryPrice, contracts, strike or type.
C1_ScenarioPrices ==
  Returned =>
    /\ (isFinite(call.currentPrice) /\ Gt0(call.currentPrice)) =>
         /\ IsScaled(ret.v.plusPrice, 4,
                     Scaled(call.currentPrice, 2) * (100 + Scaled(call.pct, 0)))
         /\ IsScaled(ret.v.minusPrice, 4,
                     Scaled(call.currentPrice, 2) * (100 - Scaled(call.pct, 0)))
    /\ Le0(call.currentPrice) =>
         ret.v.plusPrice = NaN /\ ret.v.minusPrice = NaN /\ ret.v.plusPrice # Zero
    /\ \A other \in OtherCalls({"entryPrice", "contracts", "strike", "type"}) :
         /\ ResultOf(other).plusPrice = ret.v.plusPrice
         /\ ResultOf(other).minusPrice = ret.v.minusPrice

\* the smoke test: computeRow(1.0, 1.72, 2, 15, "C", 15)
C1_Witness ==
  /\ Returned
  /\ call = [ op |-> "computeRow", entryPrice |-> Fin(1, 0), currentPrice |-> Fin(172, -2),
              contracts |-> Fin(2, 0), strike |-> Fin(15, 0), type |-> "C", pct |-> Fin(15, 0) ]
  /\ ret.v.plusPrice = Fin(1978, -3)
  /\ ret.v.minusPrice = Fin(1462, -3)

\* C2: for finite inputs curValue, plusValue and minusValue are finite exactly
\* when currentPrice > 0 and contracts > 0, then equal to currentPrice, plusPrice
\* and minusPrice times contracts times 100; otherwise all three are NaN, not 0.
C2_Values ==
  (Returned /\ FiniteCall) =>
    IF Gt0(call.currentPrice) /\ Gt0(call.contracts)
    THEN /\ IsScaled(ret.v.curValue, 3,
                     Scaled(call.currentPrice, 2) * Scaled(call.contracts, 1) * 100)
         /\ IsScaled(ret.v.plusValue, 5,
                     Scaled(ret.v.plusPrice, 4) * Scaled(call.contracts, 1) * 100)
         /\ IsScaled(ret.v.minusValue, 5,
                     Scaled(ret.v.minusPrice, 4) * Scaled(call.contracts, 1) * 100)
    ELSE /\ ret.v.curValue = NaN /\ ret.v.plusValue = NaN /\ ret.v.minusValue = NaN
         /\ Zero \notin {ret.v.curValue, ret.v.plusValue, ret.v.minusValue}

\* computeRow(1.00, 1.72, 0, 15, "C", 15): contracts not > 0
C2_Witness ==
  /\ Returned
  /\ call.currentPrice = Fin(172, -2) /\ call.contracts = Zero /\ call.pct = Fin(15, 0)
  /\ ret.v.curValue = NaN /\ ret.v.plusValue = NaN /\ ret.v.minusValue = NaN
  /\ ret.v.plusPrice = Fin(1978, -3)

\* C3: for finite inputs unrealNow is the finite number (currentPrice -
\* entryPrice) * contracts * 100, also when currentPrice <= 0, where plusPrice,
\* minusPrice, curValue, plusValue and minusValue are all NaN.
C3_UnrealizedNow ==
  (Returned /\ FiniteCall) =>
    /\ IsScaled(ret.v.unrealNow, 3,
                (Scaled(call.currentPrice, 2) - Scaled(call.entryPrice, 2))
                  * Scaled(call.contracts, 1) * 100)
    /\ Le0(call.currentPrice) =>
         /\ isFinite(ret.v.unrealNow)
         /\ \A f \in {"plusPrice", "minusPrice", "curValue", "plusValue", "minusValue"} :
              ret.v[f] = NaN

\* computeRow(1.00, 0, 1, 15, "C", 15): unrealNow = -100
C3_Witness ==
  /\ Returned
  /\ call.entryPrice = Fin(1, 0) /\ call.currentPrice = Zero /\ call.contracts = Fin(1, 0)
  /\ ret.v.unrealNow = Fin(-100, 0)
  /\ ret.v.curValue = NaN

\* C4: for finite inputs realizedPlus = (plusPrice - entryPrice) * contracts * 100
\* and realizedMinus = (minusPrice - entryPrice) * contracts * 100 when
\* currentPrice > 0, whatever the sign of contracts, and both are NaN otherwise;
\* with contracts = 0 and currentPrice > 0, unrealNow, realizedPlus and
\* realizedMinus are the number 0.
C4_Realized ==
  (Returned /\ FiniteCall) =>
    /\ IF Gt0(call.currentPrice)
       THEN /\ IsScaled(ret.v.realizedPlus, 5,
                        (Scaled(ret.v.plusPrice, 4) - Scaled(call.entryPrice, 2) * 100)
                          * Scaled(call.contracts, 1) * 100)
            /\ IsScaled(ret.v.realizedMinus, 5,
                        (Scaled(ret.v.minusPrice, 4) - Scaled(call.entryPrice, 2) * 100)
                          * Scaled(call.contracts, 1) * 100)
       ELSE ret.v.realizedPlus = NaN /\ ret.v.realizedMinus = NaN
    /\ (call.contracts = Zero /\ Gt0(call.currentPrice)) =>
         ret.v.unrealNow = Zero /\ ret.v.realizedPlus = Zero /\ ret.v.realizedMinus = Zero

\* a negative contract count with a positive price: realizedPlus is a number
C4_Witness ==
  /\ Returned
  /\ call.entryPrice = Fin(1, 0) /\ call.currentPrice = Fin(172, -2)
  /\ call.contracts = Fin(-1, 0) /\ call.pct = Fin(15, 0)
  /\ ret.v.realizedPlus = Fin(-978, -1)
  /\ ret.v.plusValue = NaN

\* C5: for finite strike and entryPrice, breakevenStock = strike + entryPrice for
\* a call and NaN for a put; it does not depend on currentPrice, contracts or pct.
C5_Breakeven ==
  (Returned /\ isFinite(call.strike) /\ isFinite(call.entryPrice)) =>
    /\ call.type = "C" =>
         IsScaled(ret.v.breakevenStock, 2, Scaled(call.strike, 2) + Scaled(call.entryPrice, 2))
    /\ call.type = "P" => ret.v.breakevenStock = NaN
    /\ \A other \in OtherCalls({"currentPrice", "contracts", "pct"}) :
         ResultOf(other).breakevenStock = ret.v.breakevenStock

C5_Witness ==
  /\ Returned
  /\ call.type = "C" /\ call.strike = Fin(15, 0) /\ call.entryPrice = Fin(172, -2)
  /\ call.currentPrice = NaN
  /\ ret.v.breakevenStock = Fin(1672, -2)

(***************************************************************************)
(* numberOr as a pure function: one call on a raw value of a bounded set   *)
(***************************************************************************)
MaxLen == 3

ParseAlphabet == {"1", "5", ".", "-", "e", " ", "a"}

\* every text of at most MaxLen characters of ParseAlphabet
ShortTexts == UNION {[1..n -> ParseAlphabet] : n \in 0..MaxLen}

LongTexts ==
  { <<"1", ".", "7", "2">>,
    <<"a", "b", "c">>,
    <<"+", ".", "5", "E", "+", "1", "x">>,
    <<" ", " ", "1", ".", "5", "e", "-", "3", "x">>,
    <<"1", "5", ".", "e", "5">>,
    <<"1", ".", "7", "9", "e", "3", "0", "8">>,
    <<"1", ".", "8", "e", "3", "0", "8">>,
    <<"-", "1", "e", "9", "9", "9">>,
    <<"5", "e", "-", "3", "2", "5">>,
    InfinityText,
    <<"-">> \o InfinityText,
    NumberToString(NaN) }

RawValues ==
  {Str(t) : t \in ShortTexts \cup LongTexts} \cup {Num(n) : n \in PriceInputs} \cup {Undefined}

Fallbacks == {Zero, Fin(5, 0), Fin(15, 0)}

NumberOrCalls == [op : {"numberOr"}, v : RawValues, fallback : Fallbacks]

InitNum == IdleApp /\ call \in NumberOrCalls /\ ret = NoRet

NumberOrCall ==
  /\ call.op = "numberOr"
  /\ ret = NoRet
  /\ ret' = [tag |-> "num", v |-> numberOr(call.v, call.fallback)]
  /\ UNCHANGED <<appVars, call>>

NextNum == NumberOrCall

SpecNum == InitNum /\ [][NextNum]_vars

(***************************************************************************)
(* What a text denotes, stated on whole numerals rather than by scanning   *)
(***************************************************************************)
AllDigits(t) == \A i \in 1..Len(t) : t[i] \in DigitChars

\* digits with at most one decimal point, a digit at least
IsMantissa(t) ==
  \E d \in 0..Len(t) :
    /\ AllDigits(SubSeq(t, 1, d))
    /\ \/ d = Len(t) /\ d >= 1
       \/ d < Len(t) /\ t[d + 1] = "." /\ AllDigits(SubSeq(t, d + 2, Len(t))) /\ Len(t) >= 2

\* e or E, an optional sign, digits
IsExponent(t) ==
  /\ Len(t) >= 2
  /\ t[1] \in {"e", "E"}
  /\ LET r == IF t[2] \in {"+", "-"} THEN SubSeq(t, 3, Len(t)) ELSE Tail(t)
     IN  Len(r) >= 1 /\ AllDigits(r)

IsUnsignedNumeral(t, withExponent) ==
  \/ IsMantissa(t)
  \/ /\ withExponent
     /\ \E j \in 1..Len(t) : IsMantissa(SubSeq(t, 1, j)) /\ IsExponent(SubSeq(t, j + 1, Len(t)))

IsNumeral(t, withExponent) ==
  \/ IsUnsignedNumeral(t, withExponent)
  \/ Len(t) >= 1 /\ t[1] \in {"+", "-"} /\ IsUnsignedNumeral(Tail(t), withExponent)

\* the digits of t weighted by their places, the character at stop and after left out
RECURSIVE PlaceSum(_, _, _)
PlaceSum(t, i, stop) ==
  IF i >= stop THEN 0
  ELSE IF t[i] \in DigitChars
       THEN DigitVal(t[i]) * Pow10(Cardinality({j \in (i + 1)..(stop - 1) : t[j] \in DigitChars}))
            + PlaceSum(t, i + 1, stop)
       ELSE PlaceSum(t, i + 1, stop)

\* the number a numeral denotes, as mantissa and decimal exponent
NumeralValue(t) ==
  LET ePos == {i \in 1..Len(t) : t[i] \in {"e", "E"}}
      stop == IF ePos = {} THEN Len(t) + 1 ELSE CHOOSE i \in ePos : TRUE
      dots == {i \in 1..(stop - 1) : t[i] = "."}
      decimals == IF dots = {} THEN 0 ELSE stop - 1 - (CHOOSE i \in dots : TRUE)
      sign == IF t[1] = "-" THEN -1 ELSE 1
      eSign == IF stop < Len(t) /\ t[stop + 1] = "-" THEN -1 ELSE 1
      ex == IF ePos = {} THEN 0 ELSE eSign * PlaceSum(t, stop + 1, Len(t) + 1)
  IN  [m |-> sign * PlaceSum(t, 1, stop), e |-> ex - decimals]

\* t without its leading white space
RECURSIVE TrimStart(_)
TrimStart(t) == IF t # <<>> /\ Head(t) \in WhiteSpace THEN TrimStart(Tail(t)) ELSE t

\* the lengths of the prefixes of t that are numerals
NumeralPrefixes(t, withExponent) ==
  {n \in 1..Len(t) : IsNumeral(SubSeq(t, 1, n), withExponent)}

Longest(S) == CHOOSE n \in S : \A k \in S : k <= n

\* the decimal order of magnitude of mant * 10^ex, mant # 0
Order(mant, ex) == ex + NumDigits(Abs(mant)) - 1

\* mant * 10^ex is above the largest double (1.797...e308); told on two digits
AboveDoubles(mant, ex) ==
  /\ mant # 0
  /\ \/ Order(mant, ex) > 308
     \/ /\ Order(mant, ex) = 308
        /\ Abs(Fin(mant, 0).m) * 100 >= 18 * Pow10(NumDigits(Abs(Fin(mant, 0).m)))

\* mant * 10^ex is below the smallest double above 0 (4.9e-324)
BelowDoubles(mant, ex) == mant # 0 /\ Order(mant, ex) < -324

\* what numberOr is to return for a text: the number of the longest numeral
\* prefix after the leading white space, fallback without one or beyond doubles
Denoted(text, fallback, withExponent) ==
  LET t == TrimStart(text)
      P == NumeralPrefixes(t, withExponent)
      x == NumeralValue(SubSeq(t, 1, Longest(P)))
  IN  IF P = {} THEN fallback
      ELSE IF AboveDoubles(x.m, x.e) THEN fallback
      ELSE IF BelowDoubles(x.m, x.e) THEN Zero
      ELSE Fin(x.m, x.e)

NumReturned == ret.tag = "num"

\* the parts of the claim that do not rest on the grammar of a numeral
NumberOrTotal ==
  /\ isFinite(ret.v) \/ ret.v = call.fallback
  /\ call.v.t = "number" =>
       ret.v = IF call.v.n.k = "fin" THEN call.v.n ELSE call.fallback
  /\ call.v.t \notin {"string", "number"} => ret.v = call.fallback

\* C7 as stated: for a text, numberOr returns the number of the longest prefix
\* made of an optional sign, digits and at most one decimal point (leading
\* white space granted), fallback without one.
C7_AsStated ==
  NumReturned =>
    /\ NumberOrTotal
    /\ call.v.t = "string" => ret.v = Denoted(call.v.s, call.fallback, FALSE)

\* C7 amended: numberOr returns a finite number or fallback; for a text, after
\* the leading white space, the number of the longest prefix made of an optional
\* sign, digits with at most one decimal point and an optional exponent part
\* (e or E, optional sign, digits), fallback without such a prefix or when the
\* number is beyond the doubles; for a number, itself when finite and fallback
\* otherwise; fallback for any other value.
C7_NumberOr ==
  NumReturned =>
    /\ NumberOrTotal
    /\ call.v.t = "string" => ret.v = Denoted(call.v.s, call.fallback, TRUE)

\* "  1.5e-3x" with fallback 5 is 0.0015
C7_Witness ==
  /\ NumReturned
  /\ call.v = Str(<<" ", " ", "1", ".", "5", "e", "-", "3", "x">>)
  /\ call.fallback = Fin(5, 0)
  /\ ret.v = Fin(15, -4)

(***************************************************************************)
(* Auto-refresh: the Live Data page, the route and the interval timer      *)
(***************************************************************************)
Routes == {"portfolio", "live"}

\* what the user types into the sec input
RefreshTexts == {<<>>, <<"3">>, <<"3", "0">>}

ApiKeys == {"", "sk_1"}

\* the page starts on either route; the list has a row with a contract text
InitTimer ==
  /\ route \in Routes
  /\ InitLive
  /\ rows = <<emptyRow(randomUUID(1))>>
  /\ nextId = 2
  /\ pct = Fin(15, 0)
  /\ dataFeedUrl = ""
  /\ tasks = <<>>
  /\ call = NoCall
  /\ ret = NoRet

\* hashchange: a navigation link, or the address bar
HashChange ==
  /\ \E r \in Routes : route' = r
  /\ UNCHANGED <<autoRefresh, refreshSec, apiKey>>
  /\ IF route' # route THEN timerEffect ELSE UNCHANGED timerVars
  /\ UNCHANGED <<rows, pct, dataFeedUrl, nextId, tasks, call, ret>>

\* the Auto-refresh checkbox of the Live Data page
ToggleAutoRefresh ==
  /\ route = "live"
  /\ autoRefresh' = ~autoRefresh
  /\ UNCHANGED <<route, refreshSec, apiKey>>
  /\ timerEffect
  /\ UNCHANGED <<rows, pct, dataFeedUrl, nextId, tasks, call, ret>>

\* the sec input of the Live Data page
SetRefreshSec ==
  /\ route = "live"
  /\ \E v \in RefreshTexts : refreshSec' = numberOr(Str(v), Fin(15, 0))
  /\ UNCHANGED <<route, autoRefresh, apiKey>>
  /\ IF refreshSec' # refreshSec THEN timerEffect ELSE UNCHANGED timerVars
  /\ UNCHANGED <<rows, pct, dataFeedUrl, nextId, tasks, call, ret>>

\* the API Key input of the Live Data page
SetApiKey ==
  /\ route = "live"
  /\ \E key \in ApiKeys : apiKey' = key
  /\ UNCHANGED <<route, autoRefresh, refreshSec>>
  /\ IF apiKey' # apiKey THEN timerEffect ELSE UNCHANGED timerVars
  /\ UNCHANGED <<rows, pct, dataFeedUrl, nextId, tasks, call, ret>>

\* the Endpoint URL input of the Live Data page
LiveSetDataFeedUrl == route = "live" /\ SetDataFeedUrl

\* the table of the Portfolio page
PortfolioAddRow == route = "portfolio" /\ AddRow

PortfolioRemoveRow == route = "portfolio" /\ RemoveRow

\* an interval timer that is scheduled fires: () => refreshAllQuotes()
TimerFires ==
  /\ intervals # {}
  /\ startTask(quotedIds(rows))
  /\ UNCHANGED <<rows, pct, dataFeedUrl, nextId, call, ret, settingVars, timerVars>>

NextTimer ==
  \/ HashChange
  \/ ToggleAutoRefresh
  \/ SetRefreshSec
  \/ SetApiKey
  \/ LiveSetDataFeedUrl
  \/ PortfolioAddRow
  \/ PortfolioRemoveRow
  \/ TimerFires
  \/ QuoteArrives

SpecTimer == InitTimer /\ [][NextTimer]_vars

\* C11: in every reachable state an interval timer is scheduled only if
\* autoRefresh is on and the route is "live" (so none is left once either stops
\* holding), at most one is scheduled, and the one scheduled is timer.current.
C11_TimerOnlyWhileLive ==
  /\ intervals # {} => autoRefresh /\ route = "live"
  /\ Cardinality(intervals) <= 1
  /\ \A i \in intervals : i.id = timer

\* auto-refresh is still on and the route is no longer "live": the timer, which
\* had been rescheduled once (timer.current is the second identifier) and had
\* fired for a quote that has arrived, is not scheduled any more
C11_Witness ==
  /\ autoRefresh
  /\ route = "portfolio"
  /\ ret.tag = "px"
  /\ ~ret.null
  /\ timer = 2
  /\ intervals = {}

====
